---- MODULE Spec2Model ----
(***************************************************************************)
(* Model of datahub/utilities/file_backed_collections.py:                  *)
(*   _SqliteConnectionCache  - reference-counted connection registry       *)
(*   FileBackedDict          - write-back LRU cache over a SQLite table    *)
(*   FileBackedList          - append-only list over a FileBackedDict      *)
(* Every action is one public method call, run to completion (the class    *)
(* is single-threaded), including the exception paths of the method.       *)
(* Spec runs two collections over shared files; SpecDict runs one          *)
(* collection over all keys and cache configurations; SpecList runs one    *)
(* list; SpecIter runs one collection with an iterator advanced one        *)
(* element at a time between other calls.                                  *)
(***************************************************************************)
EXTENDS Integers, Sequences, FiniteSets, TLC

\* ------------------------------------------------------------------ bounds
\* cache_max_size is drawn from 0..MaxCacheSize at construction.
MaxCacheSize == 2
\* cache_eviction_batch_size is drawn from 1..MaxBatchSize at construction.
MaxBatchSize == 2
\* A list is appended to while it is shorter than MaxListLen.
MaxListLen == 2

\* _DEFAULT_MEMORY_CACHE_MAX_SIZE and _DEFAULT_MEMORY_CACHE_EVICTION_BATCH_SIZE
DEFAULT_MEMORY_CACHE_MAX_SIZE == 2000
DEFAULT_MEMORY_CACHE_EVICTION_BATCH_SIZE == 200

Objs == {"d1", "d2"}
Paths == {"p1", "p2"}
Tables == {"t1", "t2"}
Keys == {"0", "1", "2"}
\* Keys used when two collections are exercised together.
SharedKeys == {"0"}
SharedSizes == {0, 1}
SharedBatches == {1}
Values == {1, 2}

\* ------------------------------------------------------------------- state
VARIABLES
    ref_count,                  \* _SqliteConnectionCache._ref_count: path -> int
    sqlite_connection_cache,    \* _SqliteConnectionCache._sqlite_connection_cache: path -> handle
    open_conns,                 \* connection handles created and not yet .close()d
    db,                         \* the files: path -> (table -> (key -> row))
    life,                       \* per object: "absent", "open", "failed", "invalid",
                                \* "closed", "gone"
    filename,                   \* FileBackedDict.filename
    tablename,                  \* FileBackedDict.tablename
    cache_max_size,             \* FileBackedDict.cache_max_size
    cache_eviction_batch_size,  \* FileBackedDict.cache_eviction_batch_size
    conn,                       \* FileBackedDict._conn (a handle or "None")
    active_object_cache,        \* FileBackedDict._active_object_cache, LRU entry first
    list_len,                   \* FileBackedList._len of the list whose _dict the object is
    gen,                        \* the generator returned by the latest iter(d), suspended
    live,                       \* history: key -> value of the latest set not deleted since
    recency,                    \* history: the cached keys, least recently accessed first
    last                        \* history: the call that ran last and its outcome

vars == <<ref_count, sqlite_connection_cache, open_conns, db, life, filename,
          tablename, cache_max_size, cache_eviction_batch_size, conn,
          active_object_cache, list_len, gen, live, recency, last>>

registryVars == <<ref_count, sqlite_connection_cache, open_conns>>
configVars == <<life, filename, tablename, cache_max_size,
                cache_eviction_batch_size, conn>>

\* --------------------------------------------------------- finite mappings
EmptyMap == [x \in {} |-> x]
MapPut(f, k, v) == [x \in (DOMAIN f) \cup {k} |-> IF x = k THEN v ELSE f[x]]
MapDrop(f, k) == [x \in (DOMAIN f) \ {k} |-> f[x]]
Min(a, b) == IF a < b THEN a ELSE b

\* ------------------------------------------------------------ serializers
\* serializer / deserializer (pickle.dumps / pickle.loads): the stored blob
\* is not the value, and loads inverts dumps.
serializer(v) == <<"pickle", v>>
deserializer(blob) == blob[2]
\* The single extra column of the modelled collections, a caller-supplied
\* function of the value (here: the value's parity).
column_serializer(v) == v % 2

\* -------------------------------------------------- OrderedDict operations
\* The cache is a sequence of <<key, value>> pairs, least recently used first.
CacheKeys(c) == {c[i][1] : i \in 1..Len(c)}
CacheIndex(c, k) == CHOOSE i \in 1..Len(c) : c[i][1] = k
CacheValue(c, k) == c[CacheIndex(c, k)][2]
\* Faulty variant of CacheSetItem: an existing key keeps its old value.
CacheSetItem_KeepsOldValue(c, k, v) ==
    IF k \in CacheKeys(c) THEN c ELSE Append(c, <<k, v>>)
\* OrderedDict.__setitem__: a new key goes to the end, an existing key keeps
\* its position and only has its value replaced.
CacheSetItem(c, k, v) ==
    IF k \in CacheKeys(c)
    THEN [c EXCEPT ![CacheIndex(c, k)] = <<k, v>>]
    ELSE Append(c, <<k, v>>)
\* OrderedDict.__delitem__
CacheDelItem(c, k) ==
    LET i == CacheIndex(c, k)
    IN  SubSeq(c, 1, i - 1) \o SubSeq(c, i + 1, Len(c))
\* OrderedDict.move_to_end(key)
CacheMoveToEnd(c, k) == Append(CacheDelItem(c, k), <<k, CacheValue(c, k)>>)

\* ---------------------------------------------------------------- storage
\* The rows of the table of collection o in its file.
Rows(o) == db[filename[o]][tablename[o]]
\* INSERT OR REPLACE of a list of <<key, value>> items, in order.
RECURSIVE InsertOrReplace(_, _)
InsertOrReplace(rows, items) ==
    IF items = <<>> THEN rows
    ELSE InsertOrReplace(
             MapPut(rows, items[1][1],
                    [value |-> serializer(items[1][2]),
                     col |-> column_serializer(items[1][2])]),
             Tail(items))

\* What a statement on handle h raises: self._conn is None after close()
\* (AttributeError), and a closed sqlite3 connection refuses every statement.
ConnError(h, open) ==
    IF h = "None" THEN "AttributeError"
    ELSE IF h \notin open THEN "ProgrammingError"
    ELSE "ok"

\* Faulty variant of PruneCache: the popped entries are never written.
PruneCache_DropsEntries(c, rows, cerr, n) ==
    [cache |-> SubSeq(c, n + 1, Len(c)), rows |-> rows, err |-> cerr]
\* _prune_cache: pop the n oldest entries (popitem(last=False)), then write
\* them with one INSERT OR REPLACE.  The entries are popped before the
\* statement runs, so they are gone from the cache even when it raises.
PruneCache(c, rows, cerr, n) ==
    [cache |-> SubSeq(c, n + 1, Len(c)),
     rows  |-> IF cerr = "ok" THEN InsertOrReplace(rows, SubSeq(c, 1, n)) ELSE rows,
     err   |-> cerr]

\* Faulty variant of AddToCache: the cache is pruned one entry too late.
AddToCache_PrunesLate(c, rows, cerr, k, v, maxSize, batch) ==
    LET c1 == CacheSetItem(c, k, v)
    IN  IF Len(c1) > maxSize + 1
        THEN PruneCache(c1, rows, cerr, Min(Len(c1), batch))
        ELSE [cache |-> c1, rows |-> rows, err |-> "ok"]
\* Faulty variant of AddToCache: every insertion is also written to the table.
AddToCache_WriteThrough(c, rows, cerr, k, v, maxSize, batch) ==
    LET c1 == CacheSetItem(c, k, v)
        rows1 == IF cerr = "ok" THEN InsertOrReplace(rows, <<<<k, v>>>>) ELSE rows
    IN  IF Len(c1) > maxSize
        THEN PruneCache(c1, rows1, cerr, Min(Len(c1), batch))
        ELSE [cache |-> c1, rows |-> rows1, err |-> "ok"]
\* _add_to_cache: store in the cache, then prune a batch when over capacity.
AddToCache(c, rows, cerr, k, v, maxSize, batch) ==
    LET c1 == CacheSetItem(c, k, v)
    IN  IF Len(c1) > maxSize
        THEN PruneCache(c1, rows, cerr, Min(Len(c1), batch))
        ELSE [cache |-> c1, rows |-> rows, err |-> "ok"]

\* Faulty variant of Flush: the most recently used entry stays in the cache.
Flush_LeavesNewest(c, rows, cerr) ==
    PruneCache(c, rows, cerr, IF Len(c) > 0 THEN Len(c) - 1 ELSE 0)
\* flush
Flush(c, rows, cerr) == PruneCache(c, rows, cerr, Len(c))

\* __getitem__
GetItem(c, rows, cerr, k, maxSize, batch) ==
    IF k \in CacheKeys(c)
    THEN [cache |-> CacheMoveToEnd(c, k), rows |-> rows, err |-> "ok",
          res |-> CacheValue(c, k)]
    ELSE IF cerr /= "ok"
    THEN [cache |-> c, rows |-> rows, err |-> cerr, res |-> "None"]
    ELSE IF k \notin DOMAIN rows
    THEN [cache |-> c, rows |-> rows, err |-> "KeyError", res |-> "None"]
    ELSE LET v == deserializer(rows[k].value)
             a == AddToCache(c, rows, cerr, k, v, maxSize, batch)
         IN  [cache |-> a.cache, rows |-> a.rows, err |-> a.err, res |-> v]

\* __setitem__
SetItem(c, rows, cerr, k, v, maxSize, batch) ==
    AddToCache(c, rows, cerr, k, v, maxSize, batch)

\* Faulty variant of DelItem: a cached key is removed from the cache only.
DelItem_CacheOnly(c, rows, cerr, k) ==
    IF k \in CacheKeys(c)
    THEN [cache |-> CacheDelItem(c, k), rows |-> rows, err |-> "ok"]
    ELSE IF cerr /= "ok" THEN [cache |-> c, rows |-> rows, err |-> cerr]
    ELSE [cache |-> c, rows |-> MapDrop(rows, k),
          err |-> IF k \notin DOMAIN rows THEN "KeyError" ELSE "ok"]
\* Faulty variant of DelItem: KeyError whenever the DELETE removed no row.
DelItem_NeedsStoreRow(c, rows, cerr, k) ==
    LET c1 == IF k \in CacheKeys(c) THEN SubSeq(c, 1, 0) \o
                   SelectSeq(c, LAMBDA e : e[1] /= k) ELSE c
    IN  IF cerr /= "ok"
        THEN [cache |-> c1, rows |-> rows, err |-> cerr]
        ELSE [cache |-> c1, rows |-> MapDrop(rows, k),
              err |-> IF k \notin DOMAIN rows THEN "KeyError" ELSE "ok"]
\* __delitem__
DelItem(c, rows, cerr, k) ==
    LET in_cache == k \in CacheKeys(c)
        c1 == IF in_cache THEN CacheDelItem(c, k) ELSE c
        n_deleted == IF k \in DOMAIN rows THEN 1 ELSE 0
    IN  IF cerr /= "ok"
        THEN [cache |-> c1, rows |-> rows, err |-> cerr]
        ELSE [cache |-> c1,
              rows  |-> MapDrop(rows, k),
              err   |-> IF ~in_cache /\ n_deleted = 0 THEN "KeyError" ELSE "ok"]

\* Faulty variant of DictLen: the COUNT(*) has no NOT IN clause.
DictLen_CountsAllRows(c, rows, cerr) ==
    IF cerr /= "ok"
    THEN [err |-> cerr, res |-> "None"]
    ELSE [err |-> "ok", res |-> Cardinality(DOMAIN rows) + Len(c)]
\* __len__: SELECT COUNT(*) ... WHERE key NOT IN (cached keys), plus len(cache)
DictLen(c, rows, cerr) ==
    IF cerr /= "ok"
    THEN [err |-> cerr, res |-> "None"]
    ELSE [err |-> "ok",
          res |-> Cardinality((DOMAIN rows) \ CacheKeys(c)) + Len(c)]

\* All orders in which SELECT key FROM table may return the keys of a set.
Orderings(S) ==
    {s \in [1..Cardinality(S) -> S] : \A i, j \in 1..Cardinality(S) : s[i] = s[j] => i = j}
\* Faulty variant of IterRows: rows shadowed by a cache entry are yielded too.
IterRows_NoShadowCheck(cursor, c) == cursor
\* __iter__ run to exhaustion over the cursor rows in order `cursor`: the
\* store keys not in the cache, then the cache keys in cache order.
RECURSIVE IterRows(_, _)
IterRows(cursor, c) ==
    IF cursor = <<>> THEN <<>>
    ELSE (IF cursor[1] \in CacheKeys(c) THEN <<>> ELSE <<cursor[1]>>)
         \o IterRows(Tail(cursor), c)
DictIter(cursor, c) == IterRows(cursor, c) \o [i \in 1..Len(c) |-> c[i][1]]

\* ---------------------------------------------------------------- registry
\* get_connection(filename); h names the handle sqlite3.connect would return.
GetConnection(rc, scc, open, p, h) ==
    LET fresh == p \notin DOMAIN rc
        rc0 == IF fresh THEN MapPut(rc, p, 0) ELSE rc
        scc1 == IF fresh THEN MapPut(scc, p, h) ELSE scc
    IN  [ref_count |-> MapPut(rc0, p, rc0[p] + 1),
         cache     |-> scc1,
         open      |-> IF fresh THEN open \cup {h} ELSE open,
         handle    |-> scc1[p]]

\* Faulty variant of DropConnection: a missing path counts from zero.
DropConnection_CountsFromZero(rc, scc, open, p) ==
    IF p \notin DOMAIN rc
    THEN [ref_count |-> MapPut(rc, p, 0 - 1), cache |-> scc, open |-> open, err |-> "ok"]
    ELSE IF rc[p] - 1 = 0
    THEN [ref_count |-> MapDrop(rc, p), cache |-> MapDrop(scc, p),
          open |-> open \ {scc[p]}, err |-> "ok"]
    ELSE [ref_count |-> MapPut(rc, p, rc[p] - 1), cache |-> scc, open |-> open,
          err |-> "ok"]
\* Faulty variant of DropConnection: the connection is closed on every release.
DropConnection_ClosesAlways(rc, scc, open, p) ==
    IF p \notin DOMAIN rc
    THEN [ref_count |-> rc, cache |-> scc, open |-> open, err |-> "KeyError"]
    ELSE [ref_count |-> MapDrop(rc, p), cache |-> MapDrop(scc, p),
          open |-> open \ {scc[p]}, err |-> "ok"]
\* drop_connection(filename); the subscript of a missing path raises KeyError.
DropConnection(rc, scc, open, p) ==
    IF p \notin DOMAIN rc
    THEN [ref_count |-> rc, cache |-> scc, open |-> open, err |-> "KeyError"]
    ELSE IF rc[p] - 1 = 0
    THEN [ref_count |-> MapDrop(rc, p),
          cache     |-> MapDrop(scc, p),
          open      |-> open \ {scc[p]},
          err       |-> "ok"]
    ELSE [ref_count |-> MapPut(rc, p, rc[p] - 1), cache |-> scc, open |-> open,
          err |-> "ok"]

\* ------------------------------------------------------------ the calls
\* The record of a call: the method, its receiver and arguments, what it
\* raised ("ok" when nothing) and returned, and `pre`, where the key was
\* (for set, get, delete) or how many entries the cache held (for flush;
\* for sql_query, the cache of every collection; for close, with the value
\* of _conn) when the call started.
Outcome(op, o, key, val, refs, pre, err, res) ==
    [op |-> op, o |-> o, key |-> key, val |-> val, refs |-> refs,
     pre |-> pre, err |-> err, res |-> res]

Where(o, k) ==
    [inCache |-> k \in CacheKeys(active_object_cache[o]),
     inStore |-> k \in DOMAIN db[filename[o]][tablename[o]]]

\* The file of collection o with the rows of o's table replaced.
WithRows(database, o, rows) ==
    [database EXCEPT ![filename[o]] = MapPut(@, tablename[o], rows)]

Usable(o) == life[o] \in {"open", "closed"}
CErr(o) == ConnError(conn[o], open_conns)

\* The keys of a cache in its order.
KeySeq(c) == [i \in 1..Len(c) |-> c[i][1]]
\* No generator exists.
NoGen ==
    [phase |-> "none", o |-> "None", cursor |-> <<>>, current |-> "None",
     dirty |-> FALSE, yielded |-> <<>>, snap |-> {}]
\* The OrderedDict iterator of the generator's second loop raises on its
\* next step when the dictionary was restructured (a key added, removed or
\* moved) since it last stepped, unless it had already reached the end.
\* A value replaced in place is not a restructuring.
Observe(g, caches2) ==
    IF /\ g.phase = "cache"
       /\ g.current /= "None"
       /\ KeySeq(caches2[g.o]) /= KeySeq(active_object_cache[g.o])
    THEN [g EXCEPT !.dirty = TRUE]
    ELSE g

\* Recency order after an access to key k: k becomes the most recent.
Touch(s, k) == Append(SelectSeq(s, LAMBDA x : x /= k), k)
\* The recency order restricted to the keys still cached.
Restrict(s, S) == SelectSeq(s, LAMBDA x : x \in S)

\* Bookkeeping of a call on collection o that accessed key k ("None" when it
\* accessed no key), given the caches it leaves: the generator notices a
\* restructured cache, and the recency history follows the accesses.
Track(o, k) ==
    /\ gen' = Observe(gen, active_object_cache')
    /\ recency' = [u \in Objs |->
                      Restrict(IF u = o /\ k /= "None" THEN Touch(recency[u], k)
                               ELSE recency[u],
                               CacheKeys(active_object_cache'[u]))]

Init ==
    /\ ref_count = EmptyMap
    /\ sqlite_connection_cache = EmptyMap
    /\ open_conns = {}
    /\ db = [p \in Paths |-> EmptyMap]
    /\ life = [o \in Objs |-> "absent"]
    /\ filename = [o \in Objs |-> "None"]
    /\ tablename = [o \in Objs |-> "None"]
    /\ cache_max_size = [o \in Objs |-> 0]
    /\ cache_eviction_batch_size = [o \in Objs |-> 0]
    /\ conn = [o \in Objs |-> "None"]
    /\ active_object_cache = [o \in Objs |-> <<>>]
    /\ list_len = [o \in Objs |-> 0]
    /\ gen = NoGen
    /\ live = [o \in Objs |-> EmptyMap]
    /\ recency = [o \in Objs |-> <<>>]
    /\ last = Outcome("none", "None", "None", "None", <<>>, "None", "ok", "None")

\* __post_init__ of FileBackedDict(filename=p, tablename=t, cache_max_size=m,
\* cache_eviction_batch_size=b), recorded as call `op` with `pre`.  The
\* assert on the batch size comes first and leaves nothing behind.  CREATE
\* TABLE of a table the file already holds raises, after the connection
\* was acquired.
PostInit(o, p, t, m, b, op, pre) ==
    /\ life[o] = "absent"
    /\ IF ~(b > 0)
       THEN /\ life' = [life EXCEPT ![o] = "invalid"]
            /\ last' = Outcome(op, o, "None", "None", <<>>, pre, "AssertionError", "None")
            /\ UNCHANGED <<registryVars, db, filename, tablename, cache_max_size,
                           cache_eviction_batch_size, conn, active_object_cache>>
       ELSE /\ LET g == GetConnection(ref_count, sqlite_connection_cache, open_conns, p, o)
                   exists == t \in DOMAIN db[p]
               IN  /\ ref_count' = g.ref_count
                   /\ sqlite_connection_cache' = g.cache
                   /\ open_conns' = g.open
                   /\ conn' = [conn EXCEPT ![o] = g.handle]
                   /\ db' = IF exists THEN db ELSE [db EXCEPT ![p] = MapPut(@, t, EmptyMap)]
                   /\ life' = [life EXCEPT ![o] = IF exists THEN "failed" ELSE "open"]
                   /\ last' = Outcome(op, o, "None", "None", <<>>, pre,
                                      IF exists THEN "OperationalError" ELSE "ok", "None")
            /\ filename' = [filename EXCEPT ![o] = p]
            /\ tablename' = [tablename EXCEPT ![o] = t]
            /\ cache_max_size' = [cache_max_size EXCEPT ![o] = m]
            /\ cache_eviction_batch_size' = [cache_eviction_batch_size EXCEPT ![o] = b]
            /\ active_object_cache' = [active_object_cache EXCEPT ![o] = <<>>]
    /\ Track(o, "None")
    /\ UNCHANGED live

\* FileBackedDict(filename=p, tablename=t, cache_max_size=m,
\* cache_eviction_batch_size=b)
Construct(o, p, t, m, b) ==
    /\ PostInit(o, p, t, m, b, "init", "None")
    /\ UNCHANGED list_len

\* d[k] = v
DictSet(o, k, v) ==
    /\ Usable(o)
    /\ LET r == SetItem(active_object_cache[o], Rows(o), CErr(o), k, v,
                        cache_max_size[o], cache_eviction_batch_size[o])
       IN  /\ active_object_cache' = [active_object_cache EXCEPT ![o] = r.cache]
           /\ db' = WithRows(db, o, r.rows)
           /\ live' = IF r.err = "ok" THEN [live EXCEPT ![o] = MapPut(@, k, v)] ELSE live
           /\ last' = Outcome("set", o, k, v, <<>>, Where(o, k), r.err, "None")
    /\ Track(o, k)
    /\ UNCHANGED <<registryVars, configVars, list_len>>

\* d[k]
DictGet(o, k) ==
    /\ Usable(o)
    /\ LET r == GetItem(active_object_cache[o], Rows(o), CErr(o), k,
                        cache_max_size[o], cache_eviction_batch_size[o])
       IN  /\ active_object_cache' = [active_object_cache EXCEPT ![o] = r.cache]
           /\ db' = WithRows(db, o, r.rows)
           /\ last' = Outcome("get", o, k, "None", <<>>, Where(o, k), r.err, r.res)
    /\ Track(o, k)
    /\ UNCHANGED <<registryVars, configVars, list_len, live>>

\* del d[k]
DictDelete(o, k) ==
    /\ Usable(o)
    /\ LET r == DelItem(active_object_cache[o], Rows(o), CErr(o), k)
       IN  /\ active_object_cache' = [active_object_cache EXCEPT ![o] = r.cache]
           /\ db' = WithRows(db, o, r.rows)
           /\ live' = IF r.err = "ok" THEN [live EXCEPT ![o] = MapDrop(@, k)] ELSE live
           /\ last' = Outcome("delete", o, k, "None", <<>>, Where(o, k), r.err, "None")
    /\ Track(o, "None")
    /\ UNCHANGED <<registryVars, configVars, list_len>>

\* len(d)
DictLength(o) ==
    /\ Usable(o)
    /\ LET r == DictLen(active_object_cache[o], Rows(o), CErr(o))
       IN  last' = Outcome("len", o, "None", "None", <<>>, "None", r.err, r.res)
    /\ UNCHANGED <<registryVars, configVars, db, active_object_cache, list_len,
                   gen, live, recency>>

\* list(d): the iterator consumed to the end, nothing else running between
\* two elements.  The first statement of the generator executes the SELECT.
DictIterate(o) ==
    /\ Usable(o)
    /\ IF CErr(o) /= "ok"
       THEN last' = Outcome("iter", o, "None", "None", <<>>, "None", CErr(o), "None")
       ELSE \E cursor \in Orderings(DOMAIN Rows(o)) :
                last' = Outcome("iter", o, "None", "None", <<>>, "None", "ok",
                                DictIter(cursor, active_object_cache[o]))
    /\ UNCHANGED <<registryVars, configVars, db, active_object_cache, list_len,
                   gen, live, recency>>

\* d.flush()
DictFlush(o) ==
    /\ Usable(o)
    /\ LET r == Flush(active_object_cache[o], Rows(o), CErr(o))
       IN  /\ active_object_cache' = [active_object_cache EXCEPT ![o] = r.cache]
           /\ db' = WithRows(db, o, r.rows)
           /\ last' = Outcome("flush", o, "None", "None", <<>>, Len(active_object_cache[o]), r.err, "None")
    /\ Track(o, "None")
    /\ UNCHANGED <<registryVars, configVars, list_len, live>>

\* Faulty variant of FlushEach: only the first collection (self) is flushed.
FlushEach_SelfOnly(objs, caches, database) ==
    IF objs = <<>> THEN [caches |-> caches, db |-> database, err |-> "ok"]
    ELSE LET o == objs[1]
             r == Flush(caches[o], database[filename[o]][tablename[o]], CErr(o))
         IN  [caches |-> [caches EXCEPT ![o] = r.cache],
              db |-> WithRows(database, o, r.rows), err |-> r.err]
\* flush() of each collection of the list `objs` in turn, stopping at the
\* first that raises.  Returns the caches, the files and the error.
RECURSIVE FlushEach(_, _, _)
FlushEach(objs, caches, database) ==
    IF objs = <<>> THEN [caches |-> caches, db |-> database, err |-> "ok"]
    ELSE LET o == objs[1]
             r == Flush(caches[o], database[filename[o]][tablename[o]], CErr(o))
             caches1 == [caches EXCEPT ![o] = r.cache]
             database1 == WithRows(database, o, r.rows)
         IN  IF r.err /= "ok"
             THEN [caches |-> caches1, db |-> database1, err |-> r.err]
             ELSE FlushEach(Tail(objs), caches1, database1)

\* The query the model runs through sql_query: for every table of the file,
\* SELECT '<table>', key, value FROM <table> WHERE col = x.
RunSelect(file, x) ==
    UNION {{<<t, k, file[t][k].value>> : k \in {kk \in DOMAIN file[t] : file[t][kk].col = x}}
           : t \in DOMAIN file}

\* d.sql_query(query, (x,), refs).  A FileBackedList in refs is flushed
\* through its _dict, so the members of refs are given as collections.
SqlQuery(o, refs, x) ==
    /\ Usable(o)
    /\ \A i \in 1..Len(refs) : Usable(refs[i])
    /\ LET f == FlushEach(<<o>> \o refs, active_object_cache, db)
       IN  /\ active_object_cache' = f.caches
           /\ db' = f.db
           /\ last' = Outcome("sql_query", o, "None", x, refs,
                              [u \in Objs |-> Len(active_object_cache[u])], f.err,
                              IF f.err = "ok" THEN RunSelect(f.db[filename[o]], x)
                              ELSE "None")
    /\ Track(o, "None")
    /\ UNCHANGED <<registryVars, configVars, list_len, live>>

\* Faulty variant of CloseEffect: the connection is released before the flush.
CloseEffect_ReleasesFirst(o) ==
    LET same == [cache |-> active_object_cache[o], db |-> db,
                 ref_count |-> ref_count, scc |-> sqlite_connection_cache,
                 open |-> open_conns, conn |-> conn[o],
                 cache_max_size |-> cache_max_size[o], err |-> "ok"]
        d == DropConnection(ref_count, sqlite_connection_cache, open_conns, filename[o])
        f == Flush(active_object_cache[o], Rows(o), ConnError(conn[o], d.open))
    IN  IF conn[o] = "None" THEN same
        ELSE [cache |-> f.cache, db |-> WithRows(db, o, f.rows),
              ref_count |-> d.ref_count, scc |-> d.cache, open |-> d.open,
              conn |-> "None", cache_max_size |-> 0, err |-> "ok"]
\* Faulty variant of CloseEffect: close() runs again on a closed collection.
CloseEffect_Unguarded(o) ==
    LET f == Flush(active_object_cache[o], Rows(o), "ok")
        d == DropConnection(ref_count, sqlite_connection_cache, open_conns, filename[o])
    IN  [cache |-> f.cache, db |-> WithRows(db, o, f.rows),
         ref_count |-> d.ref_count, scc |-> d.cache, open |-> d.open,
         conn |-> "None", cache_max_size |-> 0, err |-> "ok"]
\* Faulty variant of CloseEffect: cache_max_size is left as configured.
CloseEffect_KeepsCacheSize(o) ==
    LET same == [cache |-> active_object_cache[o], db |-> db,
                 ref_count |-> ref_count, scc |-> sqlite_connection_cache,
                 open |-> open_conns, conn |-> conn[o],
                 cache_max_size |-> cache_max_size[o], err |-> "ok"]
        f == Flush(active_object_cache[o], Rows(o), CErr(o))
        d == DropConnection(ref_count, sqlite_connection_cache, open_conns, filename[o])
    IN  IF conn[o] = "None" THEN same
        ELSE [cache |-> f.cache, db |-> WithRows(db, o, f.rows),
              ref_count |-> d.ref_count, scc |-> d.cache, open |-> d.open,
              conn |-> "None", cache_max_size |-> cache_max_size[o], err |-> "ok"]
\* close(): what it leaves behind.  Nothing happens when _conn is already
\* None; otherwise flush, then drop_connection, then the two assignments.
CloseEffect(o) ==
    LET same == [cache |-> active_object_cache[o], db |-> db,
                 ref_count |-> ref_count, scc |-> sqlite_connection_cache,
                 open |-> open_conns, conn |-> conn[o],
                 cache_max_size |-> cache_max_size[o], err |-> "ok"]
    IN  IF conn[o] = "None" THEN same
        ELSE LET f == Flush(active_object_cache[o], Rows(o), CErr(o))
                 d == DropConnection(ref_count, sqlite_connection_cache,
                                     open_conns, filename[o])
             IN  IF f.err /= "ok"
                 THEN [same EXCEPT !.cache = f.cache, !.err = f.err]
                 ELSE IF d.err /= "ok"
                 THEN [same EXCEPT !.cache = f.cache, !.db = WithRows(db, o, f.rows),
                                   !.err = d.err]
                 ELSE [cache |-> f.cache, db |-> WithRows(db, o, f.rows),
                       ref_count |-> d.ref_count, scc |-> d.cache, open |-> d.open,
                       conn |-> "None", cache_max_size |-> 0, err |-> "ok"]

ApplyClose(o, op, after) ==
    LET e == CloseEffect(o)
    IN  /\ active_object_cache' = [active_object_cache EXCEPT ![o] = e.cache]
        /\ db' = e.db
        /\ ref_count' = e.ref_count
        /\ sqlite_connection_cache' = e.scc
        /\ open_conns' = e.open
        /\ conn' = [conn EXCEPT ![o] = e.conn]
        /\ cache_max_size' = [cache_max_size EXCEPT ![o] = e.cache_max_size]
        /\ life' = [life EXCEPT ![o] = IF e.err = "ok" THEN after ELSE @]
        /\ last' = Outcome(op, o, "None", "None", <<>>,
                           [cached |-> Len(active_object_cache[o]), conn |-> conn[o]],
                           e.err, "None")
        /\ Track(o, "None")
        /\ UNCHANGED <<filename, tablename, cache_eviction_batch_size, list_len, live>>

\* d.close(), on a collection the caller holds (open or already closed).
Close(o) ==
    /\ Usable(o)
    /\ ApplyClose(o, "close", "closed")

\* __del__, which calls close(): of an object whose constructor raised in
\* CREATE TABLE (nothing but the garbage collector refers to it), and of a
\* collection, open or closed, that the caller drops.
Discard(o) ==
    /\ life[o] \in {"failed", "open", "closed"}
    /\ ApplyClose(o, "del", "gone")

\* ------------------------------------------------ __iter__, step by step
\* The first loop of the generator, `if key[0] not in self._active_object_cache`:
\* the rows of the cursor up to the first one that no cache entry shadows.
RECURSIVE SkipShadowed(_, _)
SkipShadowed(cursor, c) ==
    IF cursor = <<>> THEN <<>>
    ELSE IF cursor[1] \in CacheKeys(c) THEN SkipShadowed(Tail(cursor), c)
    ELSE cursor
\* The key after k in the cache order, "None" when k is the last one.
Successor(c, k) ==
    IF CacheIndex(c, k) = Len(c) THEN "None" ELSE c[CacheIndex(c, k) + 1][1]
\* One next() of generator g over cache c: the generator runs to its next
\* yield.  `cursor` is what remains of the SELECT (all of it when the
\* generator has not started; its first statement executes the SELECT).
\* When the cursor is exhausted the second loop starts an iterator over the
\* cache, which raises RuntimeError if the cache was restructured between
\* two of its steps.
GenNext(g, c, cursor) ==
    LET rest == SkipShadowed(cursor, c)
        yield(k, g2) == [gen |-> [g2 EXCEPT !.yielded = Append(@, k)],
                         err |-> "ok", res |-> k]
        stop(e, ph) == [gen |-> [g EXCEPT !.phase = ph, !.cursor = <<>>,
                                          !.current = "None"],
                        err |-> e, res |-> "None"]
    IN  IF g.phase \in {"created", "rows"}
        THEN IF rest /= <<>>
             THEN yield(rest[1], [g EXCEPT !.phase = "rows", !.cursor = Tail(rest)])
             ELSE IF c = <<>> THEN stop("StopIteration", "done")
             ELSE yield(c[1][1], [g EXCEPT !.phase = "cache", !.cursor = <<>>,
                                           !.current = Successor(c, c[1][1]),
                                           !.dirty = FALSE])
        ELSE IF g.current = "None" THEN stop("StopIteration", "done")
        ELSE IF g.dirty THEN stop("RuntimeError", "error")
        ELSE yield(g.current, [g EXCEPT !.current = Successor(c, g.current)])

\* it = iter(d): the generator object is created and none of its body runs.
\* `snap` is history: the keys live at this moment.
IterCall(o) ==
    /\ Usable(o)
    /\ gen.phase \in {"none", "done", "error"}
    /\ gen' = [NoGen EXCEPT !.phase = "created", !.o = o, !.snap = DOMAIN live[o]]
    /\ last' = Outcome("iter_call", o, "None", "None", <<>>, "None", "ok", "None")
    /\ UNCHANGED <<registryVars, configVars, db, active_object_cache, list_len,
                   live, recency>>

\* next(it)
IterNext(o) ==
    /\ gen.o = o
    /\ gen.phase \in {"created", "rows", "cache"}
    /\ IF gen.phase = "created" /\ CErr(o) /= "ok"
       THEN /\ gen' = [gen EXCEPT !.phase = "error"]
            /\ last' = Outcome("next", o, "None", "None", <<>>, "None", CErr(o), "None")
       ELSE \E cursor \in (IF gen.phase = "created" THEN Orderings(DOMAIN Rows(o))
                            ELSE {gen.cursor}) :
                LET r == GenNext(gen, active_object_cache[o], cursor)
                IN  /\ gen' = r.gen
                    /\ last' = Outcome("next", o, "None", "None", <<>>, "None",
                                       r.err, r.res)
    /\ UNCHANGED <<registryVars, configVars, db, active_object_cache, list_len,
                   live, recency>>

\* While the cursor of a generator is open, the calls made between two
\* elements are those that do not write the table: what a SQLite cursor
\* returns after a write to the table it reads is not determined by this
\* program.  Cache-only calls are unrestricted.
NoWriteUnderCursor == gen.phase = "rows" => db' = db
IterSet(o, k, v) == DictSet(o, k, v) /\ NoWriteUnderCursor
IterGet(o, k) == DictGet(o, k) /\ NoWriteUnderCursor
IterDelete(o, k) == DictDelete(o, k) /\ NoWriteUnderCursor
IterFlush(o) == DictFlush(o) /\ NoWriteUnderCursor

\* _sqlite_connection_cache.drop_connection(p) called for a path that has
\* no registry entry: a release that no acquire precedes.
OverRelease(p) ==
    /\ p \notin DOMAIN ref_count
    /\ LET d == DropConnection(ref_count, sqlite_connection_cache, open_conns, p)
       IN  /\ ref_count' = d.ref_count
           /\ sqlite_connection_cache' = d.cache
           /\ open_conns' = d.open
           /\ last' = Outcome("drop_connection", "None", p, "None", <<>>, "None",
                              d.err, "None")
    /\ UNCHANGED <<configVars, db, active_object_cache, list_len, gen, live, recency>>

\* ------------------------------------------------------- FileBackedList
\* An optional argument is <<>> when not supplied (None) and <<x>> when x is
\* supplied.  `arg or default`: None and 0 are both falsy.
OrDefault(arg, default) ==
    IF arg = <<>> THEN default
    ELSE IF arg[1] = 0 THEN default
    ELSE arg[1]
\* str(index) of an index within 0..9
StrOf(i) == <<"0", "1", "2", "3", "4", "5", "6", "7", "8", "9">>[i + 1]
ListSizes == {<<>>, <<0>>, <<1>>, <<2>>}
ListBatches == {<<>>, <<0>>, <<-1>>, <<1>>}

\* FileBackedList(filename=p, tablename=t, cache_max_size=m,
\* cache_eviction_batch_size=b): _len = 0, then the FileBackedDict.
ListConstruct(o, p, t, m, b) ==
    /\ PostInit(o, p, t,
                OrDefault(m, DEFAULT_MEMORY_CACHE_MAX_SIZE),
                OrDefault(b, DEFAULT_MEMORY_CACHE_EVICTION_BATCH_SIZE),
                "list_init", [m |-> m, b |-> b])
    /\ list_len' = [list_len EXCEPT ![o] = 0]

\* Faulty variant of OutOfRange: the index one past the end is accepted.
OutOfRange_AcceptsEnd(index, n) == index < 0 \/ index > n
\* if index < 0 or index >= self._len: raise IndexError
OutOfRange(index, n) == index < 0 \/ index >= n

\* What a list call records as `pre`: the index and the length at the call.
ListPre(o, i) == [index |-> i, len |-> list_len[o]]

\* lst[i]
ListGet(o, i) ==
    /\ Usable(o)
    /\ IF OutOfRange(i, list_len[o])
       THEN /\ last' = Outcome("list_get", o, "None", "None", <<>>, ListPre(o, i),
                               "IndexError", "None")
            /\ UNCHANGED <<active_object_cache, db, gen, recency>>
       ELSE LET k == StrOf(i)
                r == GetItem(active_object_cache[o], Rows(o), CErr(o), k,
                             cache_max_size[o], cache_eviction_batch_size[o])
            IN  /\ active_object_cache' = [active_object_cache EXCEPT ![o] = r.cache]
                /\ db' = WithRows(db, o, r.rows)
                /\ last' = Outcome("list_get", o, k, "None", <<>>, ListPre(o, i),
                                   r.err, r.res)
                /\ Track(o, k)
    /\ UNCHANGED <<registryVars, configVars, list_len, live>>

\* lst[i] = v
ListSet(o, i, v) ==
    /\ Usable(o)
    /\ IF OutOfRange(i, list_len[o])
       THEN /\ last' = Outcome("list_set", o, "None", v, <<>>, ListPre(o, i),
                               "IndexError", "None")
            /\ UNCHANGED <<active_object_cache, db, gen, recency, live>>
       ELSE LET k == StrOf(i)
                r == SetItem(active_object_cache[o], Rows(o), CErr(o), k, v,
                             cache_max_size[o], cache_eviction_batch_size[o])
            IN  /\ active_object_cache' = [active_object_cache EXCEPT ![o] = r.cache]
                /\ db' = WithRows(db, o, r.rows)
                /\ live' = IF r.err = "ok" THEN [live EXCEPT ![o] = MapPut(@, k, v)]
                           ELSE live
                /\ last' = Outcome("list_set", o, k, v, <<>>, ListPre(o, i),
                                   r.err, "None")
                /\ Track(o, k)
    /\ UNCHANGED <<registryVars, configVars, list_len>>

\* Faulty variant of AppendLen: the length is not advanced.
AppendLen_Stays(n) == n
\* The length after an append that stored its value: self._len += 1
AppendLen(n) == n + 1

\* lst.append(v): self._dict[str(self._len)] = v, then the increment, which
\* is not reached when the assignment raises.
ListAppend(o, v) ==
    /\ Usable(o)
    /\ list_len[o] < MaxListLen
    /\ LET k == StrOf(list_len[o])
           r == SetItem(active_object_cache[o], Rows(o), CErr(o), k, v,
                        cache_max_size[o], cache_eviction_batch_size[o])
       IN  /\ active_object_cache' = [active_object_cache EXCEPT ![o] = r.cache]
           /\ db' = WithRows(db, o, r.rows)
           /\ live' = IF r.err = "ok" THEN [live EXCEPT ![o] = MapPut(@, k, v)]
                      ELSE live
           /\ list_len' = [list_len EXCEPT ![o] = IF r.err = "ok" THEN AppendLen(@)
                                                  ELSE @]
           /\ last' = Outcome("append", o, k, v, <<>>, ListPre(o, list_len[o]),
                              r.err, "None")
           /\ Track(o, k)
    /\ UNCHANGED <<registryVars, configVars>>

\* len(lst)
ListLength(o) ==
    /\ Usable(o)
    /\ last' = Outcome("list_len", o, "None", "None", <<>>, "None", "ok", list_len[o])
    /\ UNCHANGED <<registryVars, configVars, db, active_object_cache, list_len,
                   gen, live, recency>>

\* ------------------------------------------------------- specifications
RefLists(o) ==
    {<<>>} \cup {<<a>> : a \in Objs \ {o}}

\* Two collections over two files and two table names.
Next ==
    \/ \E o \in Objs, p \in Paths, t \in Tables, m \in SharedSizes, b \in SharedBatches :
          Construct(o, p, t, m, b)
    \/ \E o \in Objs, k \in SharedKeys, v \in Values : DictSet(o, k, v)
    \/ \E o \in Objs, k \in SharedKeys : DictGet(o, k)
    \/ \E o \in Objs, k \in SharedKeys : DictDelete(o, k)
    \/ \E o \in Objs, x \in {0, 1} : \E refs \in RefLists(o) : SqlQuery(o, refs, x)
    \/ \E o \in Objs : Close(o)
    \/ \E o \in Objs : Discard(o)
    \/ \E p \in Paths : OverRelease(p)

Spec == Init /\ [][Next]_vars

\* One collection, all keys.
NextDict ==
    \/ \E m \in 0..MaxCacheSize, b \in 1..MaxBatchSize : Construct("d1", "p1", "t1", m, b)
    \/ \E k \in Keys, v \in Values : DictSet("d1", k, v)
    \/ \E k \in Keys : DictGet("d1", k)
    \/ \E k \in Keys : DictDelete("d1", k)
    \/ DictLength("d1")
    \/ DictIterate("d1")
    \/ DictFlush("d1")
    \/ \E x \in {0, 1} : SqlQuery("d1", <<>>, x)
    \/ Close("d1")

SpecDict == Init /\ [][NextDict]_vars

\* One list; flush() and close() of the list are those of its _dict.
NextList ==
    \/ \E m \in ListSizes, b \in ListBatches : ListConstruct("d1", "p1", "t1", m, b)
    \/ \E v \in Values : ListAppend("d1", v)
    \/ \E i \in -1..MaxListLen : ListGet("d1", i)
    \/ \E i \in -1..MaxListLen, v \in Values : ListSet("d1", i, v)
    \/ ListLength("d1")
    \/ DictFlush("d1")
    \/ Close("d1")

SpecList == Init /\ [][NextList]_vars

\* One collection and one generator over it, advanced between other calls.
IterKeys == {"0", "1"}
IterSizes == {1, 2}
NextIter ==
    \/ \E m \in IterSizes : Construct("d1", "p1", "t1", m, 1)
    \/ \E k \in IterKeys, v \in Values : IterSet("d1", k, v)
    \/ \E k \in IterKeys : IterGet("d1", k)
    \/ \E k \in IterKeys : IterDelete("d1", k)
    \/ IterFlush("d1")
    \/ IterCall("d1")
    \/ IterNext("d1")

SpecIter == Init /\ [][NextIter]_vars

\* ================================================================ claims
IsOpen(o) == life[o] = "open"
Cache(o) == active_object_cache[o]
\* What d[k] would return now.
Read(o, k) == GetItem(Cache(o), Rows(o), CErr(o), k,
                      cache_max_size[o], cache_eviction_batch_size[o])
\* The value the store holds for k.
Stored(o, k) == deserializer(Rows(o)[k].value)

\* C1  Cache overrides store: while a key is in the cache, get returns the
\* value of the latest set of that key, whatever row the store holds for it.
C1_CacheOverridesStore ==
    /\ \A o \in Objs : IsOpen(o) =>
          \A k \in CacheKeys(Cache(o)) :
              /\ k \in DOMAIN live[o]
              /\ Read(o, k).err = "ok"
              /\ Read(o, k).res = live[o][k]
    /\ (last.op = "get" /\ IsOpen(last.o) /\ last.pre.inCache) =>
          (last.err = "ok" /\ last.res = live[last.o][last.key])
\* A get answered from the cache while the store holds an earlier, different
\* value for the key.
C1_Witness ==
    /\ last.op = "get" /\ last.err = "ok" /\ IsOpen(last.o)
    /\ last.pre.inCache /\ last.pre.inStore
    /\ last.key \in DOMAIN Rows(last.o)
    /\ Stored(last.o, last.key) /= last.res
    /\ last.res = live[last.o][last.key]

\* C2  Eviction preserves value: a live key that is no longer in the cache is
\* read back from the store with the value of its latest set, for every
\* cache_max_size and cache_eviction_batch_size.
C2_EvictionPreservesValue ==
    /\ \A o \in Objs : IsOpen(o) =>
          \A k \in (DOMAIN live[o]) \ CacheKeys(Cache(o)) :
              /\ Read(o, k).err = "ok"
              /\ Read(o, k).res = live[o][k]
    /\ (last.op = "get" /\ IsOpen(last.o) /\ ~last.pre.inCache
            /\ last.key \in DOMAIN live[last.o]) =>
          (last.err = "ok" /\ last.res = live[last.o][last.key])
\* A set of key "1" with cache_max_size 1 and batch size 2 (larger than the
\* cache) has just evicted both "1" and the only other live key "0", which
\* is then read back from the store.
C2_Witness ==
    /\ IsOpen("d1")
    /\ cache_max_size["d1"] = 1 /\ cache_eviction_batch_size["d1"] = 2
    /\ last.op = "set" /\ last.key = "1" /\ last.err = "ok"
    /\ Cache("d1") = <<>>
    /\ DOMAIN live["d1"] = {"0", "1"}
    /\ live["d1"]["0"] /= live["d1"]["1"]
    /\ Read("d1", "0").res = live["d1"]["0"]

\* C3  Length consistency: len() of an open collection is the number of live
\* keys.
C3_LengthConsistency ==
    /\ \A o \in Objs : IsOpen(o) =>
          LET r == DictLen(Cache(o), Rows(o), CErr(o))
          IN  r.err = "ok" /\ r.res = Cardinality(DOMAIN live[o])
    /\ (last.op = "len" /\ IsOpen(last.o)) =>
          (last.err = "ok" /\ last.res = Cardinality(DOMAIN live[last.o]))
\* len() called with one key in both the cache and the store, one only in
\* the store and one only in the cache.
C3_Witness ==
    /\ last.op = "len" /\ last.err = "ok" /\ IsOpen(last.o)
    /\ last.res = 3
    /\ \E k1, k2, k3 \in Keys :
          /\ k1 \in CacheKeys(Cache(last.o)) /\ k1 \in DOMAIN Rows(last.o)
          /\ k2 \notin CacheKeys(Cache(last.o)) /\ k2 \in DOMAIN Rows(last.o)
          /\ k3 \in CacheKeys(Cache(last.o)) /\ k3 \notin DOMAIN Rows(last.o)

\* C4  Iteration completeness and no duplicates: an iterator consumed to the
\* end with nothing running in between yields exactly the live keys, each
\* once, whatever order the store returns its rows in.
C4_IterationExactlyOnce ==
    /\ \A o \in Objs : IsOpen(o) =>
          \A cursor \in Orderings(DOMAIN Rows(o)) :
              LET ys == DictIter(cursor, Cache(o))
              IN  /\ {ys[i] : i \in 1..Len(ys)} = DOMAIN live[o]
                  /\ Len(ys) = Cardinality(DOMAIN live[o])
    /\ (last.op = "iter" /\ IsOpen(last.o)) =>
          /\ last.err = "ok"
          /\ {last.res[i] : i \in 1..Len(last.res)} = DOMAIN live[last.o]
          /\ Len(last.res) = Cardinality(DOMAIN live[last.o])
\* An iteration over a collection with a key in both the cache and the
\* store and another key only in the store.
C4_Witness ==
    /\ last.op = "iter" /\ last.err = "ok" /\ IsOpen(last.o)
    /\ Len(last.res) >= 2
    /\ \E k1, k2 \in Keys :
          /\ k1 \in CacheKeys(Cache(last.o)) /\ k1 \in DOMAIN Rows(last.o)
          /\ k2 \notin CacheKeys(Cache(last.o)) /\ k2 \in DOMAIN Rows(last.o)

\* C5  Delete semantics: on an open collection delete(k) raises KeyError
\* exactly when k is in neither the cache nor the store, and then changes
\* neither; otherwise it succeeds and k is in neither afterwards, so that
\* get(k) raises KeyError.
C5_DeleteStep ==
    \A o \in Objs, k \in Keys :
        (last'.op = "delete" /\ last'.o = o /\ last'.key = k /\ IsOpen(o)) =>
            LET inCache == k \in CacheKeys(Cache(o))
                inStore == k \in DOMAIN Rows(o)
            IN  /\ (last'.err = "KeyError") <=> (~inCache /\ ~inStore)
                /\ (inCache \/ inStore) =>
                      /\ last'.err = "ok"
                      /\ k \notin CacheKeys(Cache(o)')
                      /\ k \notin DOMAIN (Rows(o)')
                      /\ (Read(o, k)').err = "KeyError"
                /\ (~inCache /\ ~inStore) =>
                      (active_object_cache' = active_object_cache /\ db' = db)
\* C5  Every step that is a delete on an open collection satisfies C5_DeleteStep.
C5_DeleteSemantics == [][C5_DeleteStep]_vars
\* A delete that succeeded on a key that was in the cache only.
C5_Witness ==
    /\ last.op = "delete" /\ last.err = "ok" /\ IsOpen(last.o)
    /\ last.pre.inCache /\ ~last.pre.inStore
    /\ Read(last.o, last.key).err = "KeyError"

\* C6  Reference-counted sharing: a path has a registry entry, and one open
\* connection, exactly while some collection acquired it and has not closed;
\* the count is the number of those collections, and each of them holds the
\* one connection of its path, so closing one leaves the others usable.
Holders(p) == {o \in Objs : life[o] \in {"open", "failed"} /\ filename[o] = p}
HandlesOf(p) == {h \in open_conns : filename[h] = p}
C6_RefCountedSharing ==
    /\ DOMAIN sqlite_connection_cache = DOMAIN ref_count
    /\ \A p \in Paths :
          /\ (p \in DOMAIN ref_count) <=> (Holders(p) /= {})
          /\ Cardinality(HandlesOf(p)) <= 1
          /\ (p \in DOMAIN ref_count) =>
                /\ ref_count[p] = Cardinality(Holders(p))
                /\ ref_count[p] >= 1
                /\ HandlesOf(p) = {sqlite_connection_cache[p]}
                /\ \A o \in Holders(p) : conn[o] = sqlite_connection_cache[p]
          /\ (p \notin DOMAIN ref_count) => HandlesOf(p) = {}
    /\ \A o \in Objs : IsOpen(o) => CErr(o) = "ok"
\* Two collections shared a path, one was closed, and the other has just
\* answered a get through the connection that is still open.
C6_Witness ==
    /\ life["d1"] = "closed" /\ life["d2"] = "open"
    /\ filename["d1"] = filename["d2"]
    /\ conn["d2"] = "d1"
    /\ ref_count[filename["d2"]] = 1
    /\ last.op = "get" /\ last.o = "d2" /\ last.err = "ok" /\ ~last.pre.inCache

\* C7  Flush idempotence: after flush() on an open collection the cache is
\* empty and the table holds exactly the live keys with their latest values;
\* a flush repeated at once prunes zero entries and changes neither.
C7_FlushIdempotence ==
    (last.op = "flush" /\ IsOpen(last.o)) =>
        LET o == last.o
            again == Flush(Cache(o), Rows(o), CErr(o))
        IN  /\ last.err = "ok"
            /\ Cache(o) = <<>>
            /\ DOMAIN Rows(o) = DOMAIN live[o]
            /\ \A k \in DOMAIN live[o] : Rows(o)[k].value = serializer(live[o][k])
            /\ Len(Cache(o)) = 0
            /\ again.err = "ok" /\ again.cache = Cache(o) /\ again.rows = Rows(o)
\* A flush that wrote at least two pending entries.
C7_Witness ==
    /\ last.op = "flush" /\ last.err = "ok" /\ IsOpen(last.o)
    /\ last.pre >= 2
    /\ Cardinality(DOMAIN Rows(last.o)) >= 2

\* C8  Deferred extra-column visibility: a row (with its extra column)
\* appears or changes in the table only in a step that evicts or flushes
\* its key, and then holds the key's value at that moment and the extra
\* column computed from it; a set that leaves its key in the cache changes
\* nothing a query filtering on the extra column sees for that key; after
\* flush() the query sees every live key under the column of its value.
RowSet(rows, k) == IF k \in DOMAIN rows THEN {rows[k]} ELSE {}
Seen(o, k, x) ==
    {e \in RunSelect(db[filename[o]], x) : e[1] = tablename[o] /\ e[2] = k}
C8_State ==
    (last.op = "flush" /\ IsOpen(last.o)) =>
        \A k \in DOMAIN live[last.o] :
            /\ Seen(last.o, k, column_serializer(live[last.o][k])) =
                  {<<tablename[last.o], k, serializer(live[last.o][k])>>}
            /\ Seen(last.o, k, 1 - column_serializer(live[last.o][k])) = {}
C8_Step ==
    \A o \in Objs, k \in Keys :
        IsOpen(o) =>
            /\ (RowSet(Rows(o)', k) /= RowSet(Rows(o), k) /\ k \in DOMAIN (Rows(o)')) =>
                  /\ k \notin CacheKeys(Cache(o)')
                  /\ k \in DOMAIN live'[o]
                  /\ Rows(o)'[k] = [value |-> serializer(live'[o][k]),
                                    col |-> column_serializer(live'[o][k])]
            /\ (last'.op = "set" /\ last'.o = o /\ last'.key = k
                    /\ k \in CacheKeys(Cache(o)')) =>
                  \A x \in {0, 1} : Seen(o, k, x)' = Seen(o, k, x)
\* C8  Rows become visible to a query only by eviction or flush: C8_State
\* in every state and C8_Step on every step.
C8_DeferredVisibility == []C8_State /\ [][C8_Step]_vars
\* After a set whose key is still in the cache, the table has rows that
\* match the filter on the new value's column, but none for that key.
C8_Witness ==
    /\ last.op = "set" /\ last.err = "ok" /\ IsOpen(last.o)
    /\ last.key \in CacheKeys(Cache(last.o))
    /\ last.key \notin DOMAIN Rows(last.o)
    /\ RunSelect(db[filename[last.o]], column_serializer(last.val)) /= {}
    /\ Seen(last.o, last.key, column_serializer(last.val)) = {}

\* C9  sql_query ordering: when the query runs, the collection and every
\* collection listed in refs have an empty cache and their tables hold
\* exactly their live keys with the latest values, and the rows returned are
\* those of the flushed file; a collection not listed keeps its cache and
\* its table as they were.
Listed(u, call) == u = call.o \/ \E i \in 1..Len(call.refs) : call.refs[i] = u
C9_Step ==
    \A o \in Objs, u \in Objs :
        (last'.op = "sql_query" /\ last'.o = o /\ last'.err = "ok") =>
            /\ Listed(u, last') =>
                  /\ Cache(u)' = <<>>
                  /\ DOMAIN (Rows(u)') = DOMAIN live[u]
                  /\ \A k \in DOMAIN live[u] :
                        Rows(u)'[k] = [value |-> serializer(live[u][k]),
                                       col |-> column_serializer(live[u][k])]
            /\ ~Listed(u, last') =>
                  /\ Cache(u)' = Cache(u)
                  /\ Usable(u) => Rows(u)' = Rows(u)
            /\ last'.res = RunSelect(db'[filename[o]], last'.val)
\* C9  Every step that is a sql_query that ran satisfies C9_Step.
C9_SqlQueryFlushesFirst == [][C9_Step]_vars
\* d1.sql_query(..., refs=[d2]) on a shared file, with entries pending in
\* both caches at the call, returns a row of d2's table with its latest value.
C9_Witness ==
    /\ last.op = "sql_query" /\ last.o = "d1" /\ last.refs = <<"d2">>
    /\ last.err = "ok"
    /\ filename["d1"] = filename["d2"]
    /\ last.pre["d1"] > 0 /\ last.pre["d2"] > 0
    /\ \E k \in DOMAIN live["d2"] :
          <<tablename["d2"], k, serializer(live["d2"][k])>> \in last.res

\* C10  Use-after-close fails fast: a closed collection has cache_max_size 0
\* and an empty cache; every set, get, delete, len and flush on it raises,
\* and no call on it puts an entry in its cache or changes its table.
C10_State ==
    \A o \in Objs : life[o] = "closed" =>
        /\ cache_max_size[o] = 0
        /\ Cache(o) = <<>>
        /\ \A k \in Keys, v \in Values :
              LET r == SetItem(Cache(o), Rows(o), CErr(o), k, v,
                               cache_max_size[o], cache_eviction_batch_size[o])
              IN  r.err /= "ok" /\ r.cache = <<>> /\ r.rows = Rows(o)
        /\ \A k \in Keys :
              /\ Read(o, k).err /= "ok"
              /\ DelItem(Cache(o), Rows(o), CErr(o), k).err /= "ok"
        /\ DictLen(Cache(o), Rows(o), CErr(o)).err /= "ok"
        /\ Flush(Cache(o), Rows(o), CErr(o)).err /= "ok"
        /\ (last.o = o /\ last.op \in {"set", "get", "delete", "len", "flush"}) =>
              last.err /= "ok"
C10_Step ==
    \A o \in Objs : life[o] = "closed" =>
        (Cache(o)' = <<>> /\ Rows(o)' = Rows(o))
\* C10  A closed collection fails every call and buffers nothing: C10_State
\* in every state and C10_Step on every step.
C10_UseAfterCloseFails == []C10_State /\ [][C10_Step]_vars
\* A set on a closed collection raised, with rows in its table.
C10_Witness ==
    /\ life["d1"] = "closed"
    /\ last.op = "set" /\ last.o = "d1" /\ last.err = "AttributeError"
    /\ Rows("d1") /= EmptyMap
    /\ Cache("d1") = <<>>

\* C11  Sequence bounds: on an open list, get(i) and set(i, v) succeed exactly
\* when 0 <= i < length and otherwise raise IndexError (for a negative index
\* and for i = length as well), leaving length, cache and store unchanged;
\* after the first append(x) to a fresh list, get(0) returns x while get(1)
\* and get(-1) are out of range.
C11_Step ==
    \A o \in Objs, i \in -1..(MaxListLen + 1) :
        (last'.op \in {"list_get", "list_set"} /\ last'.o = o /\ IsOpen(o)
                /\ last'.pre.index = i) =>
            /\ (last'.err = "ok") <=> (0 <= i /\ i < list_len[o])
            /\ ~(0 <= i /\ i < list_len[o]) =>
                  /\ last'.err = "IndexError"
                  /\ list_len' = list_len
                  /\ active_object_cache' = active_object_cache
                  /\ db' = db
C11_State ==
    (last.op = "append" /\ IsOpen(last.o) /\ last.pre.len = 0) =>
        /\ last.err = "ok"
        /\ ~OutOfRange(0, list_len[last.o])
        /\ Read(last.o, StrOf(0)).err = "ok"
        /\ Read(last.o, StrOf(0)).res = last.val
        /\ OutOfRange(1, list_len[last.o])
        /\ OutOfRange(-1, list_len[last.o])
\* C11  Indexed access is bounds-checked: C11_State in every state and
\* C11_Step on every step.
C11_SequenceBounds == []C11_State /\ [][C11_Step]_vars
\* A set at the index equal to the length of a non-empty list was refused,
\* with entries in the cache and rows in the table.
C11_Witness ==
    /\ last.op = "list_set" /\ last.err = "IndexError" /\ IsOpen(last.o)
    /\ last.pre.index = last.pre.len /\ last.pre.len >= 2
    /\ list_len[last.o] = last.pre.len
    /\ Cache(last.o) /= <<>>
    /\ Rows(last.o) /= EmptyMap

\* C12  Sequence append invariant: the length of a list never decreases and
\* changes only by an append, which stores its value under key str(length)
\* and then adds one; the keys of the underlying collection of an open list
\* are exactly str(0)..str(length-1), and get(i) returns the value last
\* appended at or set to index i.
C12_State ==
    /\ \A o \in Objs : IsOpen(o) =>
          LET indexKeys == {StrOf(i) : i \in 0..(list_len[o] - 1)}
          IN  /\ CacheKeys(Cache(o)) \cup DOMAIN Rows(o) = indexKeys
              /\ DOMAIN live[o] = indexKeys
              /\ \A k \in indexKeys :
                    Read(o, k).err = "ok" /\ Read(o, k).res = live[o][k]
    /\ (last.op = "list_get" /\ IsOpen(last.o) /\ last.err /= "IndexError") =>
          (last.err = "ok" /\ last.res = live[last.o][StrOf(last.pre.index)])
    /\ (last.op = "list_len" /\ IsOpen(last.o)) => last.res = list_len[last.o]
C12_Step ==
    \A o \in Objs :
        /\ list_len'[o] >= list_len[o]
        /\ list_len'[o] /= list_len[o] =>
              /\ last'.op = "append" /\ last'.o = o /\ last'.err = "ok"
              /\ list_len'[o] = list_len[o] + 1
              /\ last'.key = StrOf(list_len[o])
              /\ StrOf(list_len[o]) \notin DOMAIN live[o]
              /\ live'[o] = MapPut(live[o], StrOf(list_len[o]), last'.val)
        /\ (last'.op = "append" /\ last'.o = o /\ last'.err = "ok") =>
              list_len'[o] = list_len[o] + 1
\* C12  The list is append-only and its indices are its keys: C12_State in
\* every state and C12_Step on every step.
C12_SequenceAppendInvariant == []C12_State /\ [][C12_Step]_vars
\* A get of index 0 of a list of two elements returned the value set last,
\* from the cache, while the table still holds the value appended first.
C12_Witness ==
    /\ last.op = "list_get" /\ last.err = "ok" /\ IsOpen(last.o)
    /\ last.pre.index = 0 /\ list_len[last.o] = 2
    /\ StrOf(0) \in DOMAIN Rows(last.o)
    /\ Stored(last.o, StrOf(0)) /= last.res

\* C13  Over-release fails loudly: releasing a path that has no registry
\* entry raises and leaves the registry as it was, and no path ever has an
\* open-count of zero or less.
C13_State == \A p \in DOMAIN ref_count : ref_count[p] >= 1
C13_Step ==
    \A p \in Paths :
        (last'.op = "drop_connection" /\ last'.key = p /\ p \notin DOMAIN ref_count) =>
            /\ last'.err = "KeyError"
            /\ ref_count' = ref_count
            /\ sqlite_connection_cache' = sqlite_connection_cache
            /\ open_conns' = open_conns
\* C13  A release without an entry is an error that changes nothing:
\* C13_State in every state and C13_Step on every step.
C13_OverReleaseFailsLoudly == []C13_State /\ [][C13_Step]_vars
\* A release of an unregistered path was refused while the other path is
\* held by two collections.
C13_Witness ==
    /\ last.op = "drop_connection" /\ last.err = "KeyError"
    /\ last.key \notin DOMAIN ref_count
    /\ \E p \in DOMAIN ref_count : ref_count[p] = 2

\* C14  The part of the claim about repetition alone: no iteration yields a
\* key twice.
C14_NoKeyTwice ==
    \A i, j \in 1..Len(gen.yielded) : gen.yielded[i] = gen.yielded[j] => i = j
\* C14  Iteration reflects the state at call time: the keys one iterate()
\* produces are exactly the keys live when it was called, each once, whatever
\* get, set or delete runs between two of its elements; so it never raises,
\* never repeats a key, yields only keys live at the call, and has yielded
\* all of them when it ends.
C14_IterationReflectsCallTime ==
    /\ gen.phase /= "error"
    /\ C14_NoKeyTwice
    /\ \A i \in 1..Len(gen.yielded) : gen.yielded[i] \in gen.snap
    /\ gen.phase = "done" => {gen.yielded[i] : i \in 1..Len(gen.yielded)} = gen.snap

\* C15  Construction and teardown ordering: a collection acquires its
\* connection before it creates its table (a table appears only through the
\* registered, open connection of its file, and a constructor whose CREATE
\* TABLE raises has already taken its reference), and close() writes every
\* pending entry before it releases the connection; so a closed collection,
\* whether or not a sharer keeps the connection open, has in its table the
\* latest value of every key live in it.
UpToDate(rows, map) ==
    /\ DOMAIN rows = DOMAIN map
    /\ \A k \in DOMAIN map : rows[k] = [value |-> serializer(map[k]),
                                        col |-> column_serializer(map[k])]
C15_State ==
    \A o \in Objs : life[o] = "closed" =>
        (Cache(o) = <<>> /\ UpToDate(Rows(o), live[o]))
C15_Step ==
    /\ \A p \in Paths, t \in Tables :
          (t \notin DOMAIN db[p] /\ t \in DOMAIN db'[p]) =>
              /\ last'.op = "init" /\ last'.err = "ok"
              /\ filename'[last'.o] = p /\ tablename'[last'.o] = t
              /\ p \in DOMAIN ref_count'
              /\ conn'[last'.o] = sqlite_connection_cache'[p]
              /\ conn'[last'.o] \in open_conns'
    /\ \A o \in Objs, p \in Paths :
          (last'.op = "init" /\ last'.o = o /\ filename'[o] = p
                  /\ last'.err = "OperationalError") =>
              /\ ref_count'[p] = (IF p \in DOMAIN ref_count THEN ref_count[p] ELSE 0) + 1
              /\ conn'[o] = sqlite_connection_cache'[p]
    /\ \A o \in Objs :
          (last'.op \in {"close", "del"} /\ last'.o = o /\ IsOpen(o)) =>
              /\ last'.err = "ok"
              /\ Cache(o)' = <<>>
              /\ UpToDate(db'[filename[o]][tablename[o]], live[o])
              /\ conn'[o] = "None"
              /\ (ref_count[filename[o]] > 1) =>
                    /\ ref_count'[filename[o]] = ref_count[filename[o]] - 1
                    /\ open_conns' = open_conns
              /\ (ref_count[filename[o]] = 1) =>
                    /\ filename[o] \notin DOMAIN ref_count'
                    /\ conn[o] \notin open_conns'
\* C15  Acquire before create, flush before release: C15_State in every
\* state and C15_Step on every step.
C15_ConstructTeardownOrdering == []C15_State /\ [][C15_Step]_vars
\* d1 was closed with an entry pending in its cache while d2 keeps the
\* shared connection open, and the entry is in d1's table.
C15_Witness ==
    /\ last.op = "close" /\ last.o = "d1" /\ last.err = "ok"
    /\ last.pre.cached > 0 /\ last.pre.conn /= "None"
    /\ life["d1"] = "closed" /\ life["d2"] = "open"
    /\ filename["d1"] = filename["d2"]
    /\ ref_count[filename["d2"]] = 1
    /\ CErr("d2") = "ok"
    /\ \E k \in DOMAIN live["d1"] : Stored("d1", k) = live["d1"][k]

\* C16  LRU eviction choice: when an insertion (a set, or a get that reads
\* its key through from the store) leaves the cache over capacity, exactly
\* n = min(cache size after the insertion, batch size) entries move to the
\* store, and they are the n least recently used, an entry's recency being
\* its latest access or insertion: a get answered from the cache, a
\* read-through insertion, or a set, also one that overwrites a cached key.
C16_Step ==
    \A o \in Objs, k \in Keys :
        (IsOpen(o) /\ last'.o = o /\ last'.key = k /\ last'.err = "ok"
            /\ (last'.op = "set"
                 \/ (last'.op = "get" /\ k \notin CacheKeys(Cache(o))))) =>
            LET order == Touch(recency[o], k)
                size == Len(order)
                n == IF size > cache_max_size[o]
                     THEN Min(size, cache_eviction_batch_size[o]) ELSE 0
            IN  /\ Len(Cache(o)') = size - n
                /\ CacheKeys(Cache(o)') = {order[i] : i \in (n + 1)..size}
                /\ \A i \in 1..n :
                      /\ order[i] \in DOMAIN (Rows(o)')
                      /\ Rows(o)'[order[i]].value = serializer(live'[o][order[i]])
\* C16  Every insertion that overflows the cache evicts the least recently
\* used entries.
C16_LruEvictionChoice == [][C16_Step]_vars

\* C17  Cache capacity bound: after every call (construction, set, get,
\* delete, flush, sql_query, close) the cache holds at most cache_max_size
\* entries, for every cache_max_size >= 0 and every batch size > 0; a get
\* that misses the cache inserts too, and evicts when that overflows.
C17_CacheCapacityBound ==
    /\ \A o \in Objs : Len(Cache(o)) <= cache_max_size[o]
    /\ \A o \in Objs : Usable(o) =>
          \A k \in Keys :
              Len(Read(o, k).cache) <= cache_max_size[o]
\* A get that missed the cache of a collection with cache_max_size 1 and
\* batch size 2 evicted the entry that was cached and the one it inserted.
C17_Witness ==
    /\ last.op = "get" /\ last.err = "ok" /\ IsOpen(last.o)
    /\ ~last.pre.inCache
    /\ cache_max_size[last.o] = 1 /\ cache_eviction_batch_size[last.o] = 2
    /\ Cache(last.o) = <<>>
    /\ Cardinality(DOMAIN Rows(last.o)) >= 2

\* C18  Map refinement: an open collection behaves as a plain map.  The
\* map it stands for, the cache laid over the rows of the keys that are not
\* cached, is the map of the sets and deletes made so far; get(k) returns
\* the value of the latest set of k not followed by a delete and raises
\* KeyError otherwise; get and flush leave the map as it is, set and delete
\* change it at their key only.
Overlay(o) ==
    [k \in CacheKeys(Cache(o)) \cup DOMAIN Rows(o) |->
        IF k \in CacheKeys(Cache(o)) THEN CacheValue(Cache(o), k) ELSE Stored(o, k)]
C18_State ==
    /\ \A o \in Objs : IsOpen(o) =>
          /\ Overlay(o) = live[o]
          /\ \A k \in Keys :
                IF k \in DOMAIN live[o]
                THEN Read(o, k).err = "ok" /\ Read(o, k).res = live[o][k]
                ELSE Read(o, k).err = "KeyError"
    /\ (last.op = "get" /\ IsOpen(last.o)) =>
          IF last.key \in DOMAIN live[last.o]
          THEN last.err = "ok" /\ last.res = live[last.o][last.key]
          ELSE last.err = "KeyError"
C18_Step ==
    \A o \in Objs :
        (IsOpen(o) /\ last'.o = o) =>
            /\ last'.op \in {"get", "flush", "len", "iter", "sql_query"} =>
                  Overlay(o)' = Overlay(o)
            /\ last'.op = "set" =>
                  (last'.err = "ok" /\ Overlay(o)' = MapPut(Overlay(o), last'.key, last'.val))
            /\ last'.op = "delete" =>
                  /\ (last'.err = "ok") <=> (last'.key \in DOMAIN Overlay(o))
                  /\ Overlay(o)' = MapDrop(Overlay(o), last'.key)
\* C18  The collection refines a map: C18_State in every state and C18_Step
\* on every step.
C18_MapRefinement == []C18_State /\ [][C18_Step]_vars
\* A get of a key that is not live raised KeyError, while another key is
\* cached with a value newer than its row and a third is in the table only.
C18_Witness ==
    /\ last.op = "get" /\ last.err = "KeyError" /\ IsOpen(last.o)
    /\ \E k1, k2 \in Keys :
          /\ k1 \in CacheKeys(Cache(last.o)) /\ k1 \in DOMAIN Rows(last.o)
          /\ Stored(last.o, k1) /= CacheValue(Cache(last.o), k1)
          /\ k2 \notin CacheKeys(Cache(last.o)) /\ k2 \in DOMAIN Rows(last.o)

\* C19  Close is idempotent: close() on a closed collection, and the close()
\* that __del__ runs after an explicit close(), change nothing; every
\* collection gives up its reference exactly once, so the count of a path is
\* the number of collections that still hold its connection, and a repeated
\* close never closes or unregisters a connection that another one holds.
Holding(p) == {o \in Objs : conn[o] /= "None" /\ filename[o] = p}
C19_State ==
    /\ \A p \in Paths :
          Cardinality(Holding(p)) = (IF p \in DOMAIN ref_count THEN ref_count[p] ELSE 0)
    /\ \A o \in Objs : conn[o] /= "None" =>
          /\ filename[o] \in DOMAIN sqlite_connection_cache
          /\ conn[o] = sqlite_connection_cache[filename[o]]
          /\ conn[o] \in open_conns
C19_Step ==
    \A o \in Objs :
        /\ (last'.op \in {"close", "del"} /\ last'.o = o /\ conn[o] = "None") =>
              /\ last'.err = "ok"
              /\ UNCHANGED <<registryVars, db, active_object_cache, conn,
                             cache_max_size, cache_eviction_batch_size,
                             filename, tablename, list_len>>
        /\ (last'.op \in {"close", "del"} /\ last'.o = o /\ conn[o] /= "None") =>
              /\ conn'[o] = "None"
              /\ Holding(filename[o])' = Holding(filename[o]) \ {o}
        /\ (conn[o] /= "None" /\ conn'[o] = "None") =>
              (last'.op \in {"close", "del"} /\ last'.o = o)
\* C19  A collection releases once and only once: C19_State in every state
\* and C19_Step on every step.
C19_CloseIdempotent == []C19_State /\ [][C19_Step]_vars
\* d1 was closed and then discarded (its __del__ ran close() again) while d2
\* holds the connection they shared, which is still open and counted once.
C19_Witness ==
    /\ last.op = "del" /\ last.o = "d1" /\ last.err = "ok"
    /\ last.pre.conn = "None"
    /\ life["d1"] = "gone" /\ life["d2"] = "open"
    /\ filename["d1"] = filename["d2"]
    /\ ref_count[filename["d2"]] = 1
    /\ CErr("d2") = "ok"

\* C20  Sequence configuration pass-through: a list constructed with an
\* explicit cache_max_size m >= 0 and an explicit batch size b configures its
\* collection with exactly m and b; so m = 0 gives cache_max_size 0, and
\* b = 0 (or less) fails the assertion as it does for a collection
\* constructed directly.
C20_ConfigurationPassThrough ==
    last.op = "list_init" =>
        LET m == last.pre.m
            b == last.pre.b
        IN  /\ (b /= <<>> /\ ~(b[1] > 0)) => last.err = "AssertionError"
            /\ last.err = "ok" =>
                  /\ m /= <<>> => cache_max_size[last.o] = m[1]
                  /\ b /= <<>> => cache_eviction_batch_size[last.o] = b[1]

====
